---- MODULE Spec2Model ----
(***************************************************************************)
(* A model of substratevm/mx.substratevm/testhello.py: the Checker class   *)
(* (ordered multi-pattern matching of the lines of one gdb command's       *)
(* output) and the scripted gdb session test() that drives it.             *)
(*                                                                         *)
(* Strings are sequences of tokens.  A token is one character of a line    *)
(* ("A", "B"), the line terminator "\n", or one fixed piece of a format    *)
(* string / one formatted number.  Regular expressions are literal token   *)
(* sequences; re.match is the anchored prefix match that Pattern.match     *)
(* performs for a literal.                                                 *)
(***************************************************************************)
EXTENDS Integers, Sequences, FiniteSets, TLC

\* ------------------------------------------------------------------ bounds
MaxLines == 3
MaxRexps == 2

\* ------------------------------------------------------------------ inputs
NL == "\n"
Regexps == {<<>>, <<"A">>, <<"B">>, <<"A", "B">>}
Lines == {<<>>, <<"A">>, <<"B">>, <<"A", "B">>}
CheckerName == <<"c">>

SeqsUpTo(S, n) == UNION {[1..k -> S] : k \in 0..n}

RECURSIVE JoinLines(_)
JoinLines(ls) ==
    IF ls = <<>> THEN <<>> ELSE Head(ls) \o <<NL>> \o JoinLines(Tail(ls))

\* every text of at most MaxLines lines, with or without the final newline
Texts ==
    LET full == {JoinLines(ls) : ls \in SeqsUpTo(Lines, MaxLines)}
    IN  full \cup {SubSeq(t, 1, Len(t) - 1) : t \in full \ {<<>>}}

IsPrefix(p, s) == Len(p) <= Len(s) /\ SubSeq(s, 1, Len(p)) = p

\* ------------------------------------------------------- library functions
\* str.splitlines(): a line ends at each "\n"; a last line without
\* terminator is kept unless it is empty
RECURSIVE splitlines_from(_, _, _)
splitlines_from(text, k, cur) ==
    IF k > Len(text)
    THEN IF cur = <<>> THEN <<>> ELSE <<cur>>
    ELSE IF text[k] = NL
         THEN <<cur>> \o splitlines_from(text, k + 1, <<>>)
         ELSE splitlines_from(text, k + 1, Append(cur, text[k]))

splitlines(text) == splitlines_from(text, 1, <<>>)

\* re.compile(regexp): a pattern object
re_compile(regexp) == [pattern |-> regexp]

\* rexp.match(line): None is <<>>, a match object m is <<m>>
re_match_full(rexp, line) ==
    IF rexp.pattern = line
    THEN <<[re |-> rexp, string |-> line, end |-> Len(rexp.pattern)]>>
    ELSE <<>>

re_match(rexp, line) ==
    IF IsPrefix(rexp.pattern, line)
    THEN <<[re |-> rexp, string |-> line, end |-> Len(rexp.pattern)]>>
    ELSE <<>>

\* '%s' % rexp, the repr of a compiled pattern
FmtRexp(rexp) == <<"re.compile('">> \o rexp.pattern \o <<"')">>

\* ------------------------------------------------------------------ Checker
isinstance_list(regexps) == regexps.list

\* Checker.__init__(name, regexps); regexps is [list |-> BOOLEAN, v |-> value]
Checker__init__bare(name, regexps) ==
    LET rs == IF ~isinstance_list(regexps)
              THEN [k \in 1..Len(regexps.v) |-> <<regexps.v[k]>>]
              ELSE regexps.v
    IN  [name |-> name, rexps |-> [k \in 1..Len(rs) |-> re_compile(rs[k])]]

Checker__init__(name, regexps) ==
    LET rs == IF ~isinstance_list(regexps) THEN <<regexps.v>> ELSE regexps.v
    IN  [name |-> name, rexps |-> [k \in 1..Len(rs) |-> re_compile(rs[k])]]

\* Checker.__str__
RECURSIVE FmtRexps(_)
FmtRexps(rexps) ==
    IF rexps = <<>> THEN <<>>
    ELSE <<"  ">> \o FmtRexp(Head(rexps)) \o <<NL>> \o FmtRexps(Tail(rexps))

Checker__str__(self) ==
    <<"Checker ">> \o self.name \o <<" ">> \o <<"{", NL>>
        \o FmtRexps(self.rexps) \o <<"}", NL>>

\* the two messages of check
FmtMatchFailed(name, i, line_idx, line) ==
    <<"Checker ">> \o name \o <<": match ", ToString(i), " failed at line ",
      ToString(line_idx), " ">> \o line \o <<NL>>

FmtInsufficient(name, nmatches, num_rexps) ==
    <<"Checker ">> \o name \o <<": insufficient matching lines ",
      ToString(nmatches), " for regular expressions ", ToString(num_rexps)>>

\* print(s) appends one entry to the standard output; sys.exit(code) ends
\* the process: exit is <<>> while running and <<code>> afterwards
print(out, s) == Append(out, s)
sys_exit(st, code) == [st EXCEPT !.exit = <<code>>]

\* The frame of one call of check.  at (the line index of each match) and
\* seen (the line indices handed to rexp.match) are history fields.
Frame0 ==
    [line_idx |-> 0, matches |-> <<>>, match |-> <<>>, out |-> <<>>,
     exit |-> <<>>, ret |-> <<>>, at |-> <<>>, seen |-> {}]

\* lines 84-89: the line does not match
check_mismatch_lenient(self, text, skip_fails, i, st, line) == st

check_mismatch_fatal(self, text, skip_fails, i, st, line) ==
    sys_exit([st EXCEPT !.out =
        print(print(print(@, FmtMatchFailed(self.name, i, st.line_idx, line)),
                    Checker__str__(self)), text)], 1)

check_mismatch(self, text, skip_fails, i, st, line) ==
    IF ~skip_fails
    THEN sys_exit([st EXCEPT !.out =
             print(print(print(@, FmtMatchFailed(self.name, i, st.line_idx, line)),
                         Checker__str__(self)), text)], 1)
    ELSE st

\* lines 90-91: the line matches
check_matched(st, match) ==
    [st EXCEPT !.matches = Append(@, match[1]), !.at = Append(@, st.line_idx)]

\* lines 82-92: one iteration of the while loop
check_line_stuck(self, text, skip_fails, i, st, line) ==
    LET match == re_match(self.rexps[i + 1], line)
        s1 == [st EXCEPT !.match = match, !.seen = @ \cup {st.line_idx}]
        s2 == IF match = <<>>
              THEN check_mismatch(self, text, skip_fails, i, s1, line)
              ELSE check_matched(s1, match)
    IN  IF s2.exit # <<>> \/ match # <<>> THEN s2
        ELSE [s2 EXCEPT !.line_idx = @ + 1]

check_line(self, text, skip_fails, i, st, line) ==
    LET match == re_match(self.rexps[i + 1], line)
        s1 == [st EXCEPT !.match = match, !.seen = @ \cup {st.line_idx}]
        s2 == IF match = <<>>
              THEN check_mismatch(self, text, skip_fails, i, s1, line)
              ELSE check_matched(s1, match)
    IN  IF s2.exit # <<>> THEN s2 ELSE [s2 EXCEPT !.line_idx = @ + 1]

\* lines 81-92: the while loop for pattern i
RECURSIVE check_while(_, _, _, _, _, _)
check_while(self, text, lines, skip_fails, i, st) ==
    IF st.exit = <<>> /\ st.line_idx < Len(lines) /\ st.match = <<>>
    THEN check_while(self, text, lines, skip_fails, i,
             check_line(self, text, skip_fails, i, st, lines[st.line_idx + 1]))
    ELSE st

\* lines 78-92: the for loop over the patterns
RECURSIVE check_for_rewind(_, _, _, _, _, _)
check_for_rewind(self, text, lines, skip_fails, i, st) ==
    IF st.exit = <<>> /\ i < Len(self.rexps)
    THEN check_for_rewind(self, text, lines, skip_fails, i + 1,
             check_while(self, text, lines, skip_fails, i,
                         [st EXCEPT !.match = <<>>, !.line_idx = 0]))
    ELSE st

RECURSIVE check_for(_, _, _, _, _, _)
check_for(self, text, lines, skip_fails, i, st) ==
    IF st.exit = <<>> /\ i < Len(self.rexps)
    THEN check_for(self, text, lines, skip_fails, i + 1,
             check_while(self, text, lines, skip_fails, i,
                         [st EXCEPT !.match = <<>>]))
    ELSE st

\* lines 93-99: after the loops
check_end_partial(self, text, st) ==
    IF st.exit # <<>> THEN st
    ELSE [st EXCEPT !.out = print(@, text), !.ret = <<st.matches>>]

check_end_terse(self, text, st) ==
    IF st.exit # <<>> THEN st
    ELSE IF Len(st.matches) < Len(self.rexps)
    THEN sys_exit([st EXCEPT !.out =
             print(print(@, FmtInsufficient(self.name, Len(st.matches),
                                            Len(self.rexps))),
                   Checker__str__(self))], 1)
    ELSE [st EXCEPT !.out = print(@, text), !.ret = <<st.matches>>]

check_end(self, text, st) ==
    IF st.exit # <<>> THEN st
    ELSE IF Len(st.matches) < Len(self.rexps)
    THEN sys_exit([st EXCEPT !.out =
             print(print(print(@, FmtInsufficient(self.name, Len(st.matches),
                                                  Len(self.rexps))),
                         Checker__str__(self)), text)], 1)
    ELSE [st EXCEPT !.out = print(@, text), !.ret = <<st.matches>>]

\* Checker.check(text, skip_fails)
check(self, text, skip_fails) ==
    check_end(self, text,
        check_for(self, text, splitlines(text), skip_fails, 0, Frame0))

\* ------------------------------------------------------------------ state
\* regexps, self, text, skip_fails, res: the argument of the constructor,
\* the Checker, the text and flag of the call of check, and its frame on
\* return or exit (<<>> before the call).
\* pc, environ, prev_line_num, stdout, status: the position of the script,
\* os.environ, the local of test(), the standard output and the process.
\* issued, gdb_text, checks: history of gdb.execute (the commands it got, the
\* text it returned last) and of the calls of check.
VARIABLES regexps, self, text, skip_fails, res,
          pc, environ, prev_line_num, stdout, status,
          issued, gdb_text, checks

vars == <<regexps, self, text, skip_fails, res, pc, environ, prev_line_num,
          stdout, status, issued, gdb_text, checks>>

checkVars == <<regexps, self, text, skip_fails, res>>
sessionVars == <<pc, environ, prev_line_num, stdout, status, issued,
                 gdb_text, checks>>

NoSession ==
    /\ pc = 1
    /\ environ = [GDB_CAN_PRINT |-> "", isolates |-> "no"]
    /\ prev_line_num = 0
    /\ stdout = <<>>
    /\ status = "running"
    /\ issued = <<>>
    /\ gdb_text = <<>>
    /\ checks = <<>>

\* --------------------------------------------------- one Checker, one call
CtorArgs(isList) ==
    IF isList THEN SeqsUpTo(Regexps, MaxRexps) ELSE Regexps

\* a Checker has been constructed; check has not been called
Init ==
    /\ \E isList \in BOOLEAN : \E v \in CtorArgs(isList) :
          /\ regexps = [list |-> isList, v |-> v]
          /\ self = Checker__init__(CheckerName, regexps)
    /\ text = <<>>
    /\ skip_fails = TRUE
    /\ res = <<>>
    /\ NoSession

Check ==
    /\ res = <<>>
    /\ \E t \in Texts, s \in BOOLEAN :
          /\ text' = t
          /\ skip_fails' = s
          /\ res' = <<check(self, t, s)>>
    /\ UNCHANGED <<regexps, self>>
    /\ UNCHANGED sessionVars

Next == Check

Spec == Init /\ [][Next]_vars

\* ------------------------------------------------------- the gdb session
\* execute(command): the echo of the command; the text gdb.execute returns
\* is chosen by the action that issues the command
execute_silent(out, command) == out

execute(out, command) == print(out, <<"(gdb) ">> \o command)

\* The steps of the script, in order.  A regular expression of the script
\* is modelled by the literal <<name, "#", k>> (r"" by <<>>), a group of a
\* match by the token that follows the literal on the matched line.
\*   kind: "plain" (the text is dropped), "check", "quit"
\*   list: the patterns are passed as a list; n: their number
\*   printing: the step is inside "if can_print_data:"
\*   post: what test() does with the matches
Plain(cmd) ==
    [cmd |-> <<cmd>>, kind |-> "plain", name |-> <<>>, list |-> FALSE, n |-> 0,
     skip |-> TRUE, printing |-> FALSE, post |-> "none"]
Chk(cmd, name, list, n, skip, printing, post) ==
    [cmd |-> <<cmd>>, kind |-> "check", name |-> <<name>>, list |-> list,
     n |-> n, skip |-> skip, printing |-> printing, post |-> post]
Quit(cmd) ==
    [cmd |-> <<cmd>>, kind |-> "quit", name |-> <<>>, list |-> FALSE, n |-> 0,
     skip |-> TRUE, printing |-> FALSE, post |-> "none"]

Script(isolates) == <<
    Plain("set listsize 1"),
    Chk("show version", "show version", FALSE, 1, FALSE, FALSE, "version"),
    Plain("set pagination off"),
    Plain("set print pretty on"),
    Chk("break hello.Hello::main", "break main", FALSE, 1, TRUE, FALSE, "none"),
    Plain("run"),
    Chk("list", "list bp 1", FALSE, 1, FALSE, FALSE, "none"),
    Chk("backtrace", "backtrace hello.Hello::main", TRUE, 2, FALSE, FALSE, "none"),
    Chk("print /x *(('java.lang.String[]' *)$rdi)", "print String[] args",
        TRUE, 10, FALSE, TRUE, "none"),
    Chk("print /x *(('java.lang.String[]' *)$rdi)->hub", "print String[] hub",
        TRUE, IF isolates THEN 10 ELSE 9, TRUE, TRUE, "none"),
    Chk("x/s (('java.lang.String[]' *)$rdi)->hub->name->value->data",
        "print String[] hub name", FALSE, 1, FALSE, TRUE, "none"),
    Chk("print 'java.math.BigDecimal'::BIG_TEN_POWERS_TABLE",
        "print static field value", FALSE, 1, FALSE, TRUE, "none"),
    Chk("print 'java.math.BigDecimal'::BIG_TEN_POWERS_TABLE->data[3]->mag->data[0]",
        "print static field value contents", FALSE, 1, FALSE, TRUE, "none"),
    Chk("info func java.io.PrintStream::println",
        "info func java.io.PrintStream::println", FALSE, 1, TRUE, FALSE, "none"),
    Chk("break java.io.PrintStream::println(java.lang.String *)",
        "break println", FALSE, 1, FALSE, FALSE, "none"),
    Plain("step"),
    Chk("list", "list hello.Hello$Greeter.greeter", FALSE, 1, FALSE, FALSE, "none"),
    Chk("ptype 'hello.Hello$NamedGreeter'", "ptype NamedGreeter",
        TRUE, 7, FALSE, FALSE, "none"),
    Chk("ptype 'hello.Hello$Greeter'", "ptype Greeter", TRUE, 4, FALSE, FALSE, "none"),
    Chk("ptype 'java.lang.Object'", "ptype Object", TRUE, 8, TRUE, FALSE, "none"),
    Chk("ptype _objhdr", "ptype _objhdr", TRUE, 4, TRUE, FALSE, "none"),
    Chk("ptype 'java.lang.String[]'", "ptype String[]", TRUE, 4, TRUE, FALSE, "none"),
    Chk("backtrace", "backtrace hello.Hello.Greeter::greeter",
        TRUE, 3, FALSE, FALSE, "none"),
    Plain("next"),
    Chk("backtrace 1", "backtrace inline", TRUE, 1, FALSE, FALSE, "inline"),
    Plain("continue"),
    Chk("backtrace 1", "backtrace 1 PrintStream::println",
        TRUE, 1, FALSE, FALSE, "none"),
    Chk("list", "list println 1", FALSE, 1, FALSE, FALSE, "prevline"),
    Chk("list %d", "list println 2", FALSE, 1, FALSE, FALSE, "none"),
    Chk("print /x *(('java.io.PrintStream' *)$rdi)", "print DefaultGreeterSystem.out",
        TRUE, 19, TRUE, TRUE, "none"),
    Chk("x/s (('java.io.PrintStream' *)$rdi)->hub->name->value->data",
        "print PrintStream hub name", FALSE, 1, FALSE, TRUE, "none"),
    Quit("quit 0") >>

\* lines 150-156: the two settings read from the environment
can_print_data == environ.GDB_CAN_PRINT = "True"
isolates == environ.isolates = "yes"

CurStep == Script(isolates)[pc]

\* "list %d" % prev_line_num, and the other commands as written
StepCommand(s) ==
    IF s.cmd = <<"list %d">> THEN <<"list ", ToString(prev_line_num)>> ELSE s.cmd

\* the regular expressions of a step: r"" is the 4th of ptype NamedGreeter,
\* the pattern of list println 2 starts with prev_line_num
StepRexp(s, k) ==
    IF s.name = <<"ptype NamedGreeter">> /\ k = 4 THEN <<>>
    ELSE IF s.name = <<"list println 2">>
    THEN <<ToString(prev_line_num)>> \o s.name \o <<"#", ToString(k)>>
    ELSE s.name \o <<"#", ToString(k)>>

StepRegexps(s) ==
    IF s.list THEN [list |-> TRUE, v |-> [k \in 1..s.n |-> StepRexp(s, k)]]
    ELSE [list |-> FALSE, v |-> StepRexp(s, 1)]

\* ------------------------------------------- what gdb.execute may return
\* the tokens that the groups of the first pattern capture.  The group of
\* backtrace inline is ([a-zA-Z0-9_/]+\.java): a file name with one dot.
GroupTokens(s) ==
    IF s.post = "version" THEN {<<"10", "2">>, <<"9", "1">>}
    ELSE IF s.post = "inline" THEN {<<"hello/Hello.java">>, <<"java/io/PrintStream.java">>}
    ELSE IF s.post = "prevline" THEN {<<"2">>, <<"3">>}
    ELSE {<<>>}

\* gdb may list the line asked for or another one
ListedLines(s) ==
    IF s.name = <<"list println 2">>
    THEN {<<"1">>, <<"2">>}
    ELSE {<<>>}

ExpectedLines(s, g, l) ==
    [k \in 1..s.n |->
        IF s.name = <<"list println 2">> THEN l \o s.name \o <<"#", ToString(k)>>
        ELSE IF StepRexp(s, k) = <<>> THEN <<>>
        ELSE StepRexp(s, k) \o (IF k = 1 THEN g ELSE <<>>)]

\* the expected lines; the same after an unrelated line; all but the last
GdbTexts(s) ==
    UNION {
        {JoinLines(ExpectedLines(s, g, l)),
         JoinLines(<<<<"~">>>> \o ExpectedLines(s, g, l)),
         JoinLines(SubSeq(ExpectedLines(s, g, l), 1, s.n - 1))}
        : g \in GroupTokens(s), l \in ListedLines(s)}

PlainTexts == {<<>>, <<"~", NL>>}

\* ------------------------------------------------- what test() does next
\* int(s) for the numbers gdb prints here
int(tok) == CHOOSE n \in 0..20 : ToString(n) = tok
\* match.group(g): the g-th token after the literal
group(match, g) == match.string[match.end + g]

\* lines 141-164, 396-401, 421-422: after a check that returned.  The
\* result is the output, the status and prev_line_num afterwards.
AfterCheck(s, matches, out) ==
    IF s.post = "none"
    THEN [stdout |-> out, status |-> "running", prev |-> prev_line_num]
    ELSE IF Len(matches) = 0
    THEN [stdout |-> out, status |-> "IndexError", prev |-> prev_line_num]
    ELSE IF s.post = "version"
    THEN LET major == int(group(matches[1], 1))
             minor == int(group(matches[1], 2))
             o1 == print(out, <<"Found gdb version ", ToString(major), ".",
                                ToString(minor)>>)
             o2 == print(o1, IF isolates
                             THEN <<"Testing with isolates enabled!">>
                             ELSE <<"Testing with isolates disabled!">>)
             o3 == IF ~can_print_data
                   THEN print(o2, <<"Warning: cannot test printing of objects!">>)
                   ELSE o2
         IN  [stdout |-> o3, status |-> "running", prev |-> prev_line_num]
    ELSE IF s.post = "inline"
    THEN IF group(matches[1], 1) = "hello.Hello.java"
         THEN [stdout |-> out, status |-> "TypeError", prev |-> prev_line_num]
         ELSE [stdout |-> out, status |-> "running", prev |-> prev_line_num]
    ELSE [stdout |-> out, status |-> "running",
          prev |-> int(group(matches[1], 1)) - 1]

SessionInit ==
    /\ regexps = [list |-> TRUE, v |-> <<>>]
    /\ self = Checker__init__(CheckerName, regexps)
    /\ text = <<>>
    /\ skip_fails = TRUE
    /\ res = <<>>
    /\ pc = 1
    /\ environ \in [GDB_CAN_PRINT : {"", "True"}, isolates : {"no", "yes"}]
    /\ prev_line_num = 0
    /\ stdout = <<>>
    /\ status = "running"
    /\ issued = <<>>
    /\ gdb_text = <<>>
    /\ checks = <<>>

Running == status = "running" /\ pc <= Len(Script(isolates))

\* execute(command) with the text dropped
TestPlain ==
    /\ Running /\ CurStep.kind = "plain"
    /\ stdout' = execute(stdout, StepCommand(CurStep))
    /\ issued' = Append(issued, StepCommand(CurStep))
    /\ \E t \in PlainTexts : gdb_text' = t
    /\ pc' = pc + 1
    /\ UNCHANGED <<checkVars, environ, prev_line_num, status, checks>>

\* exec_string = execute(command); checker = Checker(name, rexp);
\* matches = checker.check(exec_string, skip_fails); and what follows it
TestCheck ==
    /\ Running /\ CurStep.kind = "check"
    /\ CurStep.printing => can_print_data
    /\ \E t \in GdbTexts(CurStep) :
        LET s == CurStep
            checker == Checker__init__(s.name, StepRegexps(s))
            r == check(checker, t, s.skip)
            out == execute(stdout, StepCommand(s)) \o r.out
            after == AfterCheck(s, r.ret[1], out)
        IN  /\ issued' = Append(issued, StepCommand(s))
            /\ gdb_text' = t
            /\ regexps' = StepRegexps(s)
            /\ self' = checker
            /\ text' = t
            /\ skip_fails' = s.skip
            /\ res' = <<r>>
            /\ checks' = Append(checks,
                   [cmd |-> Len(issued) + 1, matched |-> Len(r.matches),
                    rexps |-> Len(checker.rexps)])
            /\ IF r.exit # <<>>
               THEN /\ stdout' = out
                    /\ status' = "exit1"
                    /\ UNCHANGED <<pc, prev_line_num>>
               ELSE /\ stdout' = after.stdout
                    /\ status' = after.status
                    /\ prev_line_num' = after.prev
                    /\ pc' = pc + 1
    /\ UNCHANGED environ

\* "if can_print_data:" is false
TestSkipPrinting ==
    /\ Running /\ CurStep.kind = "check"
    /\ CurStep.printing /\ ~can_print_data
    /\ pc' = pc + 1
    /\ UNCHANGED <<checkVars, environ, prev_line_num, stdout, status, issued,
                   gdb_text, checks>>

\* print(execute("quit 0")): gdb exits with status 0 inside gdb.execute
TestQuit ==
    /\ Running /\ CurStep.kind = "quit"
    /\ stdout' = execute(stdout, StepCommand(CurStep))
    /\ issued' = Append(issued, StepCommand(CurStep))
    /\ status' = "exit0"
    /\ UNCHANGED <<checkVars, pc, environ, prev_line_num, gdb_text, checks>>

SessionNext == TestPlain \/ TestCheck \/ TestSkipPrinting \/ TestQuit

SpecSession == SessionInit /\ [][SessionNext]_vars

\* ---------------------------------------------------------------- claims
\* what the formulas below read of the state
Called == res # <<>>
R == res[1]
NumRexps == Len(self.rexps)
TextLines == splitlines(text)
NumLines == Len(TextLines)
Returned == Called /\ R.ret # <<>> /\ R.exit = <<>>
Exited1 == Called /\ R.exit = <<1>> /\ R.ret = <<>>
\* line j (from 1) matches pattern k (from 1): the pattern is a prefix of it
LineMatches(k, j) == IsPrefix(self.rexps[k].pattern, TextLines[j])
MatchesSome(j) == \E k \in 1..NumRexps : LineMatches(k, j)
Increasing(f) == \A a, b \in DOMAIN f : a < b => f[a] < f[b]
\* lines matching p1..pn appear in that order, other lines in between
Embeds ==
    \E f \in [1..NumRexps -> 1..NumLines] :
        Increasing(f) /\ \A k \in 1..NumRexps : LineMatches(k, f[k])
\* the first NumRexps lines match the patterns of the same index
Positional ==
    NumLines >= NumRexps /\ \A k \in 1..NumRexps : LineMatches(k, k)
InPatternOrder(ms) ==
    /\ Len(ms) = NumRexps
    /\ \A k \in 1..NumRexps :
          ms[k].re = self.rexps[k] /\ IsPrefix(ms[k].re.pattern, ms[k].string)
ReturnsInOrder == Returned /\ InPatternOrder(R.ret[1])

\* C1 as stated: whenever lines matching p1..pn appear in that order, with
\* other lines anywhere around them, check returns n matches in pattern
\* order, for either value of skip_fails.
C1_AsStated == (Called /\ Embeds) => ReturnsInOrder

\* C1 amended: with skip_fails=True the ordered appearance of matching lines
\* makes check return n matches in pattern order; with skip_fails=False it
\* does so exactly when the first n lines match positionally, and the
\* process exits with status 1 otherwise.
C1_OrderPreservation ==
    (Called /\ Embeds) =>
        IF skip_fails THEN ReturnsInOrder
        ELSE IF Positional THEN ReturnsInOrder ELSE Exited1

C1_Witness ==
    /\ Called /\ skip_fails /\ Embeds /\ NumRexps = 2 /\ NumLines = 3
    /\ ~LineMatches(1, 1) /\ Returned /\ R.at = <<1, 2>>

C1_WitnessStrict ==
    Called /\ ~skip_fails /\ Embeds /\ NumRexps = 2 /\ ~Positional /\ Exited1

\* C2: with skip_fails=False, at the first line that does not match the
\* pattern of the cursor the process exits with status 1: that line is the
\* last one examined, the cursor stays on it, nothing is returned, and the
\* message names that pattern and that line.
FirstMismatch(k) ==
    /\ k < NumRexps /\ k < NumLines
    /\ \A j \in 1..k : LineMatches(j, j)
    /\ ~LineMatches(k + 1, k + 1)

C2_Strictness ==
    \A k \in 0..NumLines :
        (Called /\ ~skip_fails /\ FirstMismatch(k)) =>
            /\ Exited1
            /\ R.line_idx = k
            /\ R.seen = 0..k
            /\ Len(R.matches) = k
            /\ R.out[1] = FmtMatchFailed(self.name, k, k, TextLines[k + 1])

C2_Witness ==
    /\ Called /\ ~skip_fails /\ FirstMismatch(1) /\ NumLines = 3
    /\ LineMatches(2, 3) /\ Exited1

\* C3: check either returns exactly one match per pattern, the k-th a match
\* of the k-th pattern on a line of the text, at strictly increasing line
\* indices, or the process exits with status 1 and nothing is returned.
C3_NoPartialSuccess ==
    Called =>
        \/ /\ ReturnsInOrder
           /\ Len(R.at) = NumRexps
           /\ Increasing(R.at)
           /\ \A k \in 1..NumRexps :
                 /\ R.at[k] \in 0..NumLines - 1
                 /\ R.ret[1][k].string = TextLines[R.at[k] + 1]
        \/ Exited1

C3_Witness ==
    Called /\ Returned /\ NumRexps = 2 /\ R.at[2] > R.at[1] + 1
\* C4 as stated: on every failing path the output names the Checker, the
\* index of the unmatched pattern, the index and the content of the line
\* where matching stopped, the pattern list and the text.
Contains(s, sub) ==
    \E a \in 0..Len(s) - Len(sub) : SubSeq(s, a + 1, a + Len(sub)) = sub
ListsPatterns(s) ==
    \A k \in 1..NumRexps : Contains(s, FmtRexp(self.rexps[k]))
\* the frame on exit: the first unmatched pattern and the line cursor
Unmatched == Len(R.matches)
PatternListAndText ==
    /\ Len(R.out) = 3
    /\ R.out[2] = Checker__str__(self) /\ ListsPatterns(R.out[2])
    /\ Contains(R.out[2], self.name)
    /\ R.out[3] = text
StopLineDiagnostics ==
    /\ Unmatched < NumRexps /\ R.line_idx < NumLines
    /\ ~LineMatches(Unmatched + 1, R.line_idx + 1)
    /\ R.out[1] = FmtMatchFailed(self.name, Unmatched, R.line_idx,
                                 TextLines[R.line_idx + 1])
    /\ PatternListAndText

C4_AsStated == Exited1 => StopLineDiagnostics

\* C4 amended: on the strict mismatch path the output names the Checker,
\* the index of the unmatched pattern, the index and content of the line,
\* the pattern list and the text; on the exhaustion path (the line cursor
\* has run past the last line) it names the Checker, the number of matches
\* found, which is the index of the first unmatched pattern, the number of
\* patterns, the pattern list and the text, and no line index or content.
C4_FailureDiagnostics ==
    Exited1 =>
        IF R.line_idx < NumLines
        THEN ~skip_fails /\ StopLineDiagnostics
        ELSE /\ R.line_idx = NumLines /\ Unmatched < NumRexps
             /\ R.out[1] = FmtInsufficient(self.name, Unmatched, NumRexps)
             /\ PatternListAndText

C4_Witness ==
    Exited1 /\ R.line_idx = NumLines /\ NumLines = 2 /\ Unmatched = 1

C4_WitnessStrict ==
    Exited1 /\ R.line_idx = 1 /\ NumLines = 3 /\ ~skip_fails

\* C5: with skip_fails=True, one or two lines that match no pattern, put
\* between two lines of the text, change neither whether check returns
\* nor the matches it returns.
NoiseLines == {l \in Lines : \A k \in 1..NumRexps : ~IsPrefix(self.rexps[k].pattern, l)}
\* the positions after which a line may be put: a line ends there and
\* another follows
Gaps == {p \in 1..Len(text) - 1 : text[p] = NL}
InsertAt(t, p, l) == SubSeq(t, 1, p) \o l \o <<NL>> \o SubSeq(t, p + 1, Len(t))
SameOutcome(r) == r.exit = R.exit /\ r.ret = R.ret
C5_SkipTolerance ==
    (Called /\ skip_fails) =>
        \A p \in Gaps : \A l1 \in NoiseLines :
            /\ SameOutcome(check(self, InsertAt(text, p, l1), TRUE))
            /\ \A l2 \in NoiseLines :
                  SameOutcome(check(self, InsertAt(InsertAt(text, p, l1), p, l2), TRUE))

C5_Witness ==
    /\ Returned /\ skip_fails /\ NumRexps = 2 /\ NoiseLines # {}
    /\ \E p \in Gaps : Len(splitlines(SubSeq(text, 1, p))) = R.at[1] + 1
                       /\ R.at[2] = R.at[1] + 1

C5_WitnessFail == Exited1 /\ skip_fails /\ NoiseLines # {} /\ Gaps # {}

\* C6: for either value of skip_fails, when fewer lines of the text match
\* some pattern than there are patterns, the process exits with status 1
\* and nothing is returned.
MatchingLines == {j \in 1..NumLines : MatchesSome(j)}
C6_Exhaustion ==
    (Called /\ Cardinality(MatchingLines) < NumRexps) => Exited1

C6_Witness ==
    /\ Exited1 /\ skip_fails /\ NumRexps = 2 /\ NumLines = 3
    /\ Cardinality(MatchingLines) = 1

C6_WitnessFewLines == Exited1 /\ ~skip_fails /\ NumLines = 1 /\ NumRexps = 2
                      /\ LineMatches(1, 1)

\* C7: as the header comment of check says, for either value of skip_fails
\* the process exits with status 1 if the text has fewer lines than there
\* are patterns or a line does not match the pattern of the same index,
\* and otherwise check prints the text and returns the matches.
SomeLineFails ==
    \E k \in 1..NumRexps : k <= NumLines /\ ~LineMatches(k, k)
C7_HeaderComment ==
    Called =>
        IF NumLines < NumRexps \/ SomeLineFails
        THEN Exited1
        ELSE ReturnsInOrder /\ R.out = <<text>>

\* C10: a Checker made from one pattern that is not in a list gives the
\* same outcome, the same matches and the same output as the Checker made
\* from the one-element list of that pattern.
Wrapped == Checker__init__(CheckerName, [list |-> TRUE, v |-> <<regexps.v>>])
Observable(r) == [exit |-> r.exit, ret |-> r.ret, out |-> r.out]
C10_SinglePatternShorthand ==
    (Called /\ ~regexps.list) =>
        Observable(R) = Observable(check(Wrapped, text, skip_fails))

C10_Witness ==
    Returned /\ ~regexps.list /\ Len(regexps.v) = 2 /\ NumLines = 2

C10_WitnessFail == Exited1 /\ ~regexps.list /\ regexps.v = <<>>
\* ------------------------------------------------- claims on the session
Failed(c) == c.matched < c.rexps
LastOf(q) == q[Len(q)]
CmdEcho(command) == <<"(gdb) ">> \o command
IsCmdEcho(e) == e # <<>> /\ e[1] = "(gdb) "
\* the position in stdout of the echo of the last command
LastEchoAt ==
    CHOOSE a \in DOMAIN stdout :
        IsCmdEcho(stdout[a]) /\ \A b \in DOMAIN stdout : b > a => ~IsCmdEcho(stdout[b])
LastWasChecked == checks # <<>> /\ LastOf(checks).cmd = Len(issued)

\* C8: a check that fails is the last check and its command the last
\* command, and the run has ended with status 1; the run ends with status
\* 0 only after 'quit 0' with every executed check successful; status 1
\* comes from a failed check only.
C8_FailFastSession ==
    /\ \A k \in DOMAIN checks :
          Failed(checks[k]) =>
              /\ k = Len(checks)
              /\ checks[k].cmd = Len(issued)
              /\ status = "exit1"
              /\ LastOf(stdout) = gdb_text
    /\ status = "exit0" =>
          /\ \A k \in DOMAIN checks : ~Failed(checks[k])
          /\ LastOf(issued) = <<"quit 0">>
    /\ status = "exit1" => (checks # <<>> /\ Failed(LastOf(checks)))
    /\ status \in {"running", "exit0", "exit1"}

C8_Witness ==
    /\ status = "exit1" /\ Len(checks) = 4 /\ Failed(LastOf(checks))
    /\ LastOf(checks).matched = 1 /\ pc < Len(Script(isolates))

C8_WitnessSuccess == status = "exit0" /\ Len(checks) = 24

\* C9 as stated: the command issued last has been echoed, and the text it
\* returned has been echoed after that ('quit 0' returns no text).
C9_AsStated ==
    (issued # <<>> /\ status # "exit0") =>
        \E a, b \in DOMAIN stdout :
            a < b /\ stdout[a] = CmdEcho(LastOf(issued)) /\ stdout[b] = gdb_text

\* C9 amended: every command passed to execute is echoed, in the order of
\* issue and before anything its step prints; the text a command returned
\* is echoed when it is passed to a Checker, whether check returns or
\* exits; the text of the other commands (set listsize 1, set pagination
\* off, set print pretty on, run, step, next, continue) is dropped: nothing
\* follows their echo.
C9_ConsoleTranscript ==
    /\ SelectSeq(stdout, IsCmdEcho) = [k \in 1..Len(issued) |-> CmdEcho(issued[k])]
    /\ issued # <<>> =>
          IF LastWasChecked
          THEN \E b \in DOMAIN stdout : b > LastEchoAt /\ stdout[b] = gdb_text
          ELSE LastEchoAt = Len(stdout)

C9_Witness ==
    /\ issued # <<>> /\ LastOf(issued) = <<"run">> /\ gdb_text = <<"~", NL>>
    /\ ~LastWasChecked /\ LastOf(stdout) = CmdEcho(<<"run">>)

C9_WitnessChecked ==
    /\ LastWasChecked /\ status = "exit1" /\ Len(issued) = 8
\* ------------------------------------------ claims on the two modes of check
IsMatchFailed(e) == Len(e) >= 3 /\ e[3] = ": match "
ViaInsufficient ==
    /\ Exited1
    /\ R.out[1] = FmtInsufficient(self.name, Len(R.matches), NumRexps)
    /\ \A k \in DOMAIN R.out : ~IsMatchFailed(R.out[k])
\* the line index (from 0) of the match before the k-th, -1 before the first
PrevAt(k) == IF k = 1 THEN 0 - 1 ELSE R.at[k - 1]

\* C11: with skip_fails=True check returns exactly when lines matching
\* p1..pn appear in that order; the k-th match is then on the first line
\* after the previous match that matches pk; otherwise the process exits
\* through the 'insufficient matching lines' message with the cursor past
\* the last line, never through 'match failed'.
C11_GreedyComplete ==
    (Called /\ skip_fails) =>
        /\ Returned <=> Embeds
        /\ Returned =>
              /\ Len(R.at) = NumRexps
              /\ \A k \in 1..NumRexps :
                    /\ R.at[k] > PrevAt(k)
                    /\ R.at[k] < NumLines
                    /\ LineMatches(k, R.at[k] + 1)
                    /\ R.ret[1][k].string = TextLines[R.at[k] + 1]
                    /\ \A j \in PrevAt(k) + 1..R.at[k] - 1 : ~LineMatches(k, j + 1)
        /\ ~Embeds => (ViaInsufficient /\ R.line_idx = NumLines)

\* patterns [A, B] on lines [B, A]
C11_Witness ==
    /\ Called /\ skip_fails /\ NumRexps = 2 /\ NumLines = 2
    /\ LineMatches(2, 1) /\ ~LineMatches(1, 1)
    /\ LineMatches(1, 2) /\ ~LineMatches(2, 2)
    /\ ViaInsufficient /\ Len(R.matches) = 1

C11_WitnessSuccess ==
    /\ Returned /\ skip_fails /\ NumRexps = 2 /\ NumLines = 3
    /\ R.at = <<1, 2>> /\ ~MatchesSome(1)

\* C12: with skip_fails=False check returns exactly when the text has at
\* least n lines and the k-th line matches the k-th pattern for each k;
\* no line after the n-th is handed to rexp.match, and the text cut after
\* its n-th line gives the same exit status, matches and first message;
\* fewer than n lines that all match positionally exit through the
\* 'insufficient matching lines' message.
FirstLines == SubSeq(TextLines, 1, IF NumLines < NumRexps THEN NumLines ELSE NumRexps)
AllMatchPositionally == \A k \in 1..NumLines : k <= NumRexps /\ LineMatches(k, k)
C12_StrictPositional ==
    (Called /\ ~skip_fails) =>
        /\ Returned <=> Positional
        /\ ~Returned => Exited1
        /\ \A j \in R.seen : j < NumRexps
        /\ LET cut == check(self, JoinLines(FirstLines), FALSE)
           IN  /\ cut.exit = R.exit /\ cut.ret = R.ret /\ cut.at = R.at
               /\ Exited1 => cut.out[1] = R.out[1]
        /\ (NumLines < NumRexps /\ AllMatchPositionally) =>
              (ViaInsufficient /\ Len(R.matches) = NumLines)

C12_Witness ==
    /\ Returned /\ ~skip_fails /\ NumRexps = 2 /\ NumLines = 3
    /\ ~MatchesSome(3) /\ R.seen = {0, 1}

C12_WitnessShort ==
    /\ Exited1 /\ ~skip_fails /\ NumRexps = 2 /\ NumLines = 1
    /\ AllMatchPositionally /\ ViaInsufficient
====
